---- MODULE Spec2Model ----
(***************************************************************************)
(* Model of the image batch processor of compressncrop-backend.            *)
(*                                                                         *)
(* Two revisions of the service are modelled:                              *)
(*   "server" - src/server.js        (progress events, kept-original path, *)
(*                                    cover/contain, forced 4:2:0 fallback)*)
(*   "simple" - src/unnamed/part_000 (always cover, plain quality ladder)  *)
(* The variable rev says which revision is deployed; it never changes.     *)
(*                                                                         *)
(* Node runs the handlers on one event loop, so a handler is interleaved   *)
(* with other handlers only at its awaits.  Every action below is one run  *)
(* of a handler from an await (or its start) to the next await (or its     *)
(* end): Post, ProbeResolve, ProbeReject, EncodeResolve, EncodeReject,     *)
(* FinalizeResolve, FinalizeReject of app.post('/api/process'), Connect    *)
(* and Close of app.get('/api/progress/:sessionId'), TimerFire of the      *)
(* setTimeout callback.                                                    *)
(*                                                                         *)
(* sharp and archiver are libraries outside the repository.  An image is   *)
(* a record of what they report about it: probed width and height, byte    *)
(* size, whether it decodes, and fitsAt, the largest quality at which its  *)
(* encoding is within the revision's byte limit (0: only with forced 4:2:0 *)
(* subsampling, -1: never).  The encoder is a deterministic function of    *)
(* (image, fit, quality, subsampling); apart from that an encode or the    *)
(* archive finalization may reject at any call.                            *)
(***************************************************************************)
EXTENDS Integers, Sequences, FiniteSets, TLC

\* ------------------------------------------------------------ constants

TARGET_WIDTH == 1260
TARGET_HEIGHT == 1726

MAX_FILE_SIZE_SERVER == 500000
MAX_FILE_SIZE_SIMPLE == 5000

MAX_FILE_SIZE(r) == IF r = "server" THEN MAX_FILE_SIZE_SERVER ELSE MAX_FILE_SIZE_SIMPLE

START_QUALITY_SERVER == 95
START_QUALITY_SIMPLE == 80

StartQuality(r) == IF r = "server" THEN START_QUALITY_SERVER ELSE START_QUALITY_SIMPLE

QUALITY_FLOOR == 10
QUALITY_STEP == 5

\* ------------------------------------------------------------ bounds

\* longest batch of the single-request specification
MaxFiles == 2
\* longest batch of the concurrent specification
MaxConcFiles == 1

\* ------------------------------------------------------------ inputs

Revisions == {"server", "simple"}

Image(w, h, size, ok, fitsAt) ==
  [w |-> w, h |-> h, size |-> size, ok |-> ok, fitsAt |-> fitsAt]

\* already 1260x1726 and exactly at the server's byte limit
ImgKept == Image(1260, 1726, 500000, TRUE, 95)
\* not an image: the probe and every encode reject
ImgCorrupt == Image(0, 0, 1234, FALSE, -1)
\* 100x100, smaller than the target in both axes
ImgTiny == Image(100, 100, 2000, TRUE, 95)
\* 2000x2000, aspect ratio far from the target's
ImgSquare == Image(2000, 2000, 900000, TRUE, 50)

\* 1260x1726 but one byte over the server's limit, one per encoder profile
Profiles == {95, 90, 80, 75, 50, 15, 10, 0, -1}
ImgOver(p) == Image(1260, 1726, 500001, TRUE, p)

\* larger than the target, with aspect ratios on the two sides of the 0.1
\* threshold: 1660/2000 - 1260/1726 < 0.1 < 1661/2000 - 1260/1726
ImgNear == Image(1660, 2000, 900000, TRUE, 90)
ImgFar == Image(1661, 2000, 900000, TRUE, 90)

Images ==
  {ImgKept, ImgCorrupt, ImgTiny, ImgSquare, ImgNear, ImgFar}
    \cup {ImgOver(p) : p \in Profiles}

ConcImages == {ImgCorrupt, ImgOver(90)}

\* an image that is no image, one kept as it is, one that fits after two
\* encodes and one that never fits
LiveImages == {ImgCorrupt, ImgKept, ImgOver(90), ImgOver(-1)}

PairImages == {ImgCorrupt, ImgOver(95), ImgOver(90)}

SeqsUpTo(S, n) == UNION {[1..k -> S] : k \in 0..n}

NoHeader == "<none>"
Headers == {NoHeader, "s1"}
SessionIds == {"unknown", "s1"}

Requests == {1, 2}
Conns == {1, 2}
NoClient == 0
\* the writer of the 'connected' message of a progress connection
Greeting == 0

\* ------------------------------------------------------------ sharp

\* .resize(TARGET_WIDTH, TARGET_HEIGHT, { fit, ... }): the same canvas is asked
\* for whatever the source's dimensions are
ResizeRequest(fit) ==
  [width |-> TARGET_WIDTH, height |-> TARGET_HEIGHT, fit |-> fit,
   withoutEnlargement |-> FALSE]

\* sharp(...).jpeg(...).toBuffer(): the encoded bytes, as the term that
\* determines them; w and h are the dimensions of the canvas the resize step
\* was asked for (no withoutEnlargement option is ever passed, so cover and
\* contain both give exactly the requested canvas)
Encoded(src, fit, q, sub, moz) ==
  [kind |-> "jpeg", src |-> src, fit |-> fit, q |-> q, sub |-> sub, moz |-> moz,
   w |-> ResizeRequest(fit).width, h |-> ResizeRequest(fit).height]

\* file.buffer itself
Original(src) ==
  [kind |-> "original", src |-> src, fit |-> "none", q |-> 0, sub |-> FALSE,
   moz |-> FALSE, w |-> src.w, h |-> src.h]

NoImage == [kind |-> "undefined"]

\* processedImage.length, at the boundary of the byte limit of revision r
Length(r, bytes) ==
  IF bytes.kind = "original" THEN bytes.src.size
  ELSE IF bytes.sub THEN (IF bytes.src.fitsAt >= 0 THEN MAX_FILE_SIZE(r) ELSE MAX_FILE_SIZE(r) + 1)
  ELSE IF bytes.q <= bytes.src.fitsAt THEN MAX_FILE_SIZE(r)
  ELSE MAX_FILE_SIZE(r) + 1

Abs(x) == IF x < 0 THEN 0 - x ELSE x

\* Math.abs(width / height - TARGET_WIDTH / TARGET_HEIGHT) < 0.1, over the
\* integers: |w*TH - TW*h| / (h*TH) < 1/10
AspectDiffBelowTenth(w, h) ==
  10 * Abs(w * TARGET_HEIGHT - TARGET_WIDTH * h) < h * TARGET_HEIGHT

\* ------------------------------------------------------------ state

VARIABLES
  rev,              \* the deployed revision
  files,            \* files[b]: req.files of request b, a sequence of images
  header,           \* header[b]: the x-session-id header of request b
  h,                \* h[b]: the locals of the handler run for request b
  archive,          \* archive[b]: the zip archive of request b
  trace,            \* trace[b]: history of what the handler of b did, in order
  progressClients,  \* global.progressClients
  conn,             \* conn[c]: the progress connection c
  written,          \* written[c]: whose events were written to connection c
  timers            \* requests whose setTimeout callback is pending

vars ==
  <<rev, files, header, h, archive, trace, progressClients, conn, written, timers>>

\* const sessionId = req.headers['x-session-id'] || 'unknown'
SessionIdOf(hdr) == IF hdr = NoHeader THEN "unknown" ELSE hdr

sessionId(b) == SessionIdOf(header[b])

totalFiles(b) == Len(files[b])

\* a record of the history
Op(op, type, item, count, quality, error) ==
  [op |-> op, type |-> type, item |-> item, count |-> count,
   quality |-> quality, error |-> error]

\* the locals of a handler that has not run yet; encodeCalls is history: the
\* number of toBuffer() calls made so far for the item being processed;
\* closedAt is the item that was being processed when the client of the
\* response went away (0: it has not)
FreshHandler ==
  [pc |-> "pending", i |-> 0, quality |-> 0, processedImage |-> NoImage,
   compressionAttempts |-> 0, fitMode |-> "none", site |-> "none",
   processedCount |-> 0, status |-> "none", error |-> "none",
   encodeCalls |-> 0, closedAt |-> 0]

NoArchive == [state |-> "none", entries |-> <<>>]

\* the part of the state one run of the handler of a request reads and writes
Ctx(b) == [h |-> h[b], ar |-> archive[b], tr |-> trace[b], wr |-> written]

Log(st, o) == [st EXCEPT !.tr = Append(@, o)]

\* global.progressClients: no map before the first progress connection
\* (exists = FALSE), then a map from session identifiers to connections
NoMap == [exists |-> FALSE, map |-> [s \in SessionIds |-> NoClient]]

\* global.progressClients.get(sid), NoClient when there is no map or no entry
ClientOf(sid) ==
  IF progressClients.exists THEN progressClients.map[sid] ELSE NoClient

\* a sendProgress that writes to whichever client is registered
AnyClient(sid) ==
  IF \E s \in SessionIds : ClientOf(s) # NoClient
  THEN ClientOf(CHOOSE s \in SessionIds : ClientOf(s) # NoClient)
  ELSE NoClient

\* the connection sendProgress(sid, data) writes to
ProgressTarget(sid) == ClientOf(sid)

\* sendProgress(sessionId, data) of request b: the call is recorded in the
\* history; the data is written to the client registered under the session
\* of b, if any
sendProgress(st, b, data) ==
  LET c == ProgressTarget(sessionId(b))
      logged == Log(st, data)
  IN IF c = NoClient THEN logged
     ELSE [logged EXCEPT !.wr[c] = @ \cup {b}]

\* the simple revision has no progress channel
Progress(st, b, data) == IF rev = "server" THEN sendProgress(st, b, data) ELSE st

Event(type, item, count, quality, error) == Op("event", type, item, count, quality, error)

\* ------------------------------------------------------------ app.post('/api/process')

File(b) == files[b][h[b].i]

\* !req.files || req.files.length === 0
NeverEmpty(fs) == FALSE

isEmptyBatch(fs) == Len(fs) = 0

\* the per-item locals with quality declared once, outside the loop
ItemLocalsHoisted(hr) ==
  [hr EXCEPT !.quality = IF @ = 0 THEN StartQuality(rev) ELSE @,
             !.processedImage = NoImage, !.compressionAttempts = 0,
             !.fitMode = IF rev = "server" THEN "none" ELSE "cover"]

\* let quality = 95 (80); let processedImage; let compressionAttempts = 0.
\* The simple revision always resizes with fit 'cover'.
ItemLocals(hr) ==
  [hr EXCEPT !.quality = StartQuality(rev), !.processedImage = NoImage,
             !.compressionAttempts = 0,
             !.fitMode = IF rev = "server" THEN "none" ELSE "cover"]

\* the locals of an item no longer exist once the loop has ended
OutOfScope(hr) ==
  [hr EXCEPT !.quality = 0, !.processedImage = NoImage, !.compressionAttempts = 0,
             !.fitMode = "none", !.site = "none", !.encodeCalls = 0]

\* metadata.width === TARGET_WIDTH && metadata.height === TARGET_HEIGHT
isAlreadyCorrectSize(f) == f.w = TARGET_WIDTH /\ f.h = TARGET_HEIGHT

isUnderSizeLimitStrict(f) == f.size < MAX_FILE_SIZE(rev)

\* file.size <= MAX_FILE_SIZE
isUnderSizeLimit(f) == f.size <= MAX_FILE_SIZE(rev)

\* the stricter threshold of 0.01
useCoverWithinHundredth(f) ==
  100 * Abs(f.w * TARGET_HEIGHT - TARGET_WIDTH * f.h) < f.h * TARGET_HEIGHT

\* const useCover = aspectRatioDiff < 0.1
useCover(f) == AspectDiffBelowTenth(f.w, f.h)

\* a loop that goes down to the floor whatever the size is
LoopCondToFloor(len, q) == q > QUALITY_FLOOR

\* a loop that also runs at the floor
LoopCondAtFloor(len, q) == len > MAX_FILE_SIZE(rev) /\ q >= QUALITY_FLOOR

\* while (processedImage.length > MAX_FILE_SIZE && quality > 10)
LoopCond(len, q) == len > MAX_FILE_SIZE(rev) /\ q > QUALITY_FLOOR

NeverAggressive(len) == FALSE

\* if (processedImage.length > MAX_FILE_SIZE) after the loop: server.js only
NeedsAggressive(len) == rev = "server" /\ len > MAX_FILE_SIZE(rev)

\* the quality and the subsampling flag of the toBuffer() call awaited at site
EncodeQuality(hr) == IF hr.site = "final" THEN QUALITY_FLOOR ELSE hr.quality
EncodeSubsampling(hr) == hr.site = "final"

\* await sharp(file.buffer).metadata()
StartProbe(st) ==
  Log([st EXCEPT !.h.pc = "probe"], Op("probe", "", st.h.i, 0, 0, ""))

\* pipeline = sharp(file.buffer).resize(...).jpeg(...); await pipeline.toBuffer()
StartEncode(st, site) ==
  [st EXCEPT !.h.pc = "encode", !.h.site = site, !.h.encodeCalls = @ + 1]

\* finalize without the creating_zip event
AfterLoopSilent(st, b) ==
  Log([st EXCEPT !.h.pc = "finalize"], Op("finalize", "", 0, 0, 0, ""))

\* after the for loop: creating_zip, then await archive.finalize()
AfterLoop(st, b) ==
  LET s1 == Progress(st, b, Event("creating_zip", 0, st.h.processedCount, 0, ""))
  IN Log([s1 EXCEPT !.h.pc = "finalize"], Op("finalize", "", 0, 0, 0, ""))

\* the head of the for loop, for the file at index i
BeginItem(st, b, i) ==
  IF i > totalFiles(b) THEN AfterLoop([st EXCEPT !.h = OutOfScope([@ EXCEPT !.i = i])], b)
  ELSE LET s1 == [st EXCEPT !.h = ItemLocals([@ EXCEPT !.i = i, !.encodeCalls = 0])]
       IN IF rev = "server"
          THEN StartProbe(Progress(s1, b,
                 Event("processing_file", i, s1.h.processedCount + 1, 0, "")))
          ELSE StartEncode(s1, "initial")

\* archive.append(processedImage, { name }); the history keeps the number of
\* encoder calls made for the item and the quality it ended at
Appended(st) ==
  Log([st EXCEPT !.ar.entries = Append(@, [name |-> st.h.i, data |-> st.h.processedImage])],
      Op("append", "", st.h.i, st.h.encodeCalls, st.h.quality, ""))

\* processedCount++; sendProgress(file_completed)
Completed(st, b) ==
  IF rev = "server"
  THEN LET s1 == [st EXCEPT !.h.processedCount = @ + 1]
       IN sendProgress(s1, b,
            Event("file_completed", s1.h.i, s1.h.processedCount, s1.h.quality, ""))
  ELSE st

\* console.error(`Error processing ...`, err) in the catch of an item
Caught(st, msg) == Log(st, Op("caught", "", st.h.i, 0, 0, msg))

\* a catch that counts the failed item as processed
CatchItemCounting(st, b, msg) ==
  BeginItem(Progress([Caught(st, msg) EXCEPT !.h.processedCount = @ + 1], b,
              Event("file_error", st.h.i, st.h.processedCount + 1, 0, msg)),
            b, st.h.i + 1)

\* a catch that gives up the batch
CatchItemAbort(st, b, msg) ==
  Progress([Caught(st, msg) EXCEPT !.h.pc = "done", !.h.status = "500", !.h.error = msg],
           b, Event("error", 0, 0, 0, msg))

\* catch (err) of an item: file_error, then the next item
CatchItem(st, b, msg) ==
  BeginItem(Progress(Caught(st, msg), b,
              Event("file_error", st.h.i, st.h.processedCount, 0, msg)),
            b, st.h.i + 1)

\* the event before the append
FinishItemEventFirst(st, b) == BeginItem(Appended(Completed(st, b)), b, st.h.i + 1)

\* the end of the try block of an item, then the next item.  archive.append
\* is inside the try of the item: when it throws (the archive stream has
\* failed) the catch of the item runs.
FinishItem(st, b) ==
  IF st.ar.state = "broken"
  THEN CatchItem(Log(st, Op("appendfail", "", st.h.i, 0, 0, "archive")), b, "archive")
  ELSE BeginItem(Completed(Appended(st), b), b, st.h.i + 1)

\* after the while loop
AfterWhile(st, b) ==
  IF NeedsAggressive(Length(rev, st.h.processedImage))
  THEN StartEncode(st, "final")
  ELSE FinishItem(st, b)

\* the head of the while loop
Reduce(st, b) ==
  IF LoopCond(Length(rev, st.h.processedImage), st.h.quality)
  THEN StartEncode([st EXCEPT !.h.quality = @ - QUALITY_STEP], "reduce")
  ELSE AfterWhile(st, b)

Commit(b, st) ==
  /\ h' = [h EXCEPT ![b] = st.h]
  /\ archive' = [archive EXCEPT ![b] = st.ar]
  /\ trace' = [trace EXCEPT ![b] = st.tr]
  /\ written' = st.wr

\* the handler from its start to its first await, or to the 400 response
Post(b) ==
  /\ h[b].pc = "pending"
  /\ IF isEmptyBatch(files[b])
     THEN Commit(b, Log([Ctx(b) EXCEPT !.h.pc = "done", !.h.status = "400"],
                        Op("respond", "400", 0, 0, 0, "")))
     ELSE LET s1 == Progress(Ctx(b), b, Event("upload_complete", 0, totalFiles(b), 0, ""))
              s2 == Log([s1 EXCEPT !.ar.state = "piped", !.h.status = "zip"],
                        Op("pipe", "", 0, 0, 0, ""))
              s3 == Progress(s2, b, Event("processing_started", 0, totalFiles(b), 0, ""))
          IN Commit(b, BeginItem([s3 EXCEPT !.h.processedCount = 0], b, 1))
  /\ UNCHANGED <<rev, files, header, progressClients, conn, timers>>

\* metadata() resolves
ProbeResolve(b) ==
  /\ h[b].pc = "probe"
  /\ File(b).ok
  /\ LET f == File(b)
         st == Ctx(b)
     IN IF isAlreadyCorrectSize(f) /\ isUnderSizeLimit(f)
        THEN Commit(b, FinishItem([st EXCEPT !.h.processedImage = Original(f),
                                             !.h.compressionAttempts = 0], b))
        ELSE Commit(b, StartEncode(
               [st EXCEPT !.h.fitMode = IF useCover(f) THEN "cover" ELSE "contain"],
               "initial"))
  /\ UNCHANGED <<rev, files, header, progressClients, conn, timers>>

\* metadata() rejects: the buffer is no image
ProbeReject(b) ==
  /\ h[b].pc = "probe"
  /\ ~File(b).ok
  /\ Commit(b, CatchItem(Ctx(b), b, "decode"))
  /\ UNCHANGED <<rev, files, header, progressClients, conn, timers>>

\* toBuffer() resolves
EncodeResolve(b) ==
  /\ h[b].pc = "encode"
  /\ File(b).ok
  /\ LET hr == h[b]
         img == Encoded(File(b), hr.fitMode, EncodeQuality(hr), EncodeSubsampling(hr),
                        rev = "server")
         st == [Ctx(b) EXCEPT !.h.processedImage = img]
         counted == IF rev = "server" THEN [st EXCEPT !.h.compressionAttempts = @ + 1]
                    ELSE st
     IN CASE hr.site = "initial" ->
               IF rev = "server"
               THEN IF Length(rev, img) > MAX_FILE_SIZE(rev)
                    THEN Commit(b, Reduce(counted, b))
                    ELSE Commit(b, FinishItem(counted, b))
               ELSE Commit(b, Reduce(st, b))
          [] hr.site = "reduce" -> Commit(b, Reduce(counted, b))
          [] hr.site = "final" ->
               Commit(b, FinishItem([st EXCEPT !.h.quality = QUALITY_FLOOR], b))
  /\ UNCHANGED <<rev, files, header, progressClients, conn, timers>>

\* toBuffer() rejects: the buffer is no image, or the codec fails
EncodeReject(b) ==
  /\ h[b].pc = "encode"
  /\ Commit(b, CatchItem(Ctx(b), b, "encode"))
  /\ UNCHANGED <<rev, files, header, progressClients, conn, timers>>

\* archive.finalize() resolves: complete, and the cleanup timer is set
FinalizeResolve(b) ==
  /\ h[b].pc = "finalize"
  /\ LET s1 == [Ctx(b) EXCEPT !.ar.state = "finalized", !.h.pc = "done"]
     IN Commit(b, Progress(s1, b,
          Event("complete", 0, s1.h.processedCount, 0, "")))
  /\ timers' = IF rev = "server" THEN timers \cup {b} ELSE timers
  /\ UNCHANGED <<rev, files, header, progressClients, conn>>

\* archive.finalize() rejects: the outer catch
FinalizeReject(b) ==
  /\ h[b].pc = "finalize"
  /\ \E headersSent \in BOOLEAN :
       LET s1 == [Ctx(b) EXCEPT !.ar.state = "failed", !.h.pc = "done",
                                !.h.error = "archive",
                                !.h.status = IF headersSent THEN @ ELSE "500"]
       IN Commit(b, Progress(s1, b, Event("error", 0, 0, 0, "archive")))
  /\ UNCHANGED <<rev, files, header, progressClients, conn, timers>>

\* the client of the zip response goes away while an item is being processed;
\* the handler listens to no 'close' or 'aborted' event of req or res
Disconnect(b) ==
  /\ h[b].pc \in {"probe", "encode"}
  /\ h[b].closedAt = 0
  /\ h' = [h EXCEPT ![b].closedAt = h[b].i]
  /\ UNCHANGED <<rev, files, header, archive, trace, progressClients, conn, written, timers>>

\* the archive stream fails while an item is being processed: from then on
\* archive.append throws
SinkBreaks(b) ==
  /\ h[b].pc \in {"probe", "encode"}
  /\ archive[b].state = "piped"
  /\ archive' = [archive EXCEPT ![b].state = "broken"]
  /\ UNCHANGED <<rev, files, header, h, trace, progressClients, conn, written, timers>>

\* ------------------------------------------------------------ progress channel

\* a cleanup that empties the registry
ClearAll(m, sid) == [s \in SessionIds |-> NoClient]

\* global.progressClients.delete(sid)
Delete(m, sid) == [m EXCEPT ![sid] = NoClient]

\* app.get('/api/progress/:sessionId'): register, write 'connected'.
\* Connections are numbered in the order they are made.
\* stale is history: the batches of the session whose teardown was pending
\* when the connection registered and is pending still.
Connect(c, sid) ==
  /\ rev = "server"
  /\ conn[c].state = "unused"
  /\ \A d \in Conns : d < c => conn[d].state # "unused"
  /\ conn' = [conn EXCEPT ![c] = [state |-> "open", sessionId |-> sid,
                                  stale |-> {b \in timers : sessionId(b) = sid}]]
  /\ progressClients' = [exists |-> TRUE, map |-> [progressClients.map EXCEPT ![sid] = c]]
  /\ written' = [written EXCEPT ![c] = {Greeting}]
  /\ UNCHANGED <<rev, files, header, h, archive, trace, timers>>

\* req.on('close'): unregister the session of the connection
Close(c) ==
  /\ conn[c].state = "open"
  /\ conn' = [conn EXCEPT ![c].state = "closed", ![c].stale = {}]
  /\ progressClients' = [progressClients EXCEPT !.map = Delete(@, conn[c].sessionId)]
  /\ UNCHANGED <<rev, files, header, h, archive, trace, written, timers>>

\* the setTimeout callback set after 'complete'
TimerFire(b) ==
  /\ b \in timers
  /\ timers' = timers \ {b}
  /\ progressClients' =
       IF progressClients.exists
       THEN [progressClients EXCEPT !.map = Delete(@, sessionId(b))]
       ELSE progressClients
  /\ conn' = [c \in Conns |-> [conn[c] EXCEPT !.stale = @ \ {b}]]
  /\ UNCHANGED <<rev, files, header, h, archive, trace, written>>

\* ------------------------------------------------------------ specifications

Absent == [FreshHandler EXCEPT !.pc = "absent"]

InitRest ==
  /\ archive = [b \in Requests |-> NoArchive]
  /\ trace = [b \in Requests |-> <<>>]
  /\ progressClients = NoMap
  /\ conn = [c \in Conns |-> [state |-> "unused", sessionId |-> "unknown", stale |-> {}]]
  /\ written = [c \in Conns |-> {}]
  /\ timers = {}

\* one request, in either revision, and no progress connection
InitBatch ==
  /\ rev \in Revisions
  /\ \E fs \in SeqsUpTo(Images, MaxFiles) : files = [b \in Requests |-> IF b = 1 THEN fs ELSE <<>>]
  /\ header = [b \in Requests |-> NoHeader]
  /\ h = [b \in Requests |-> IF b = 1 THEN FreshHandler ELSE Absent]
  /\ InitRest

NextBatch ==
  \E b \in Requests :
    \/ Post(b)
    \/ ProbeResolve(b)
    \/ ProbeReject(b)
    \/ EncodeResolve(b)
    \/ EncodeReject(b)
    \/ FinalizeResolve(b)
    \/ FinalizeReject(b)

SpecBatch == InitBatch /\ [][NextBatch]_vars

\* one request whose awaited calls all settle: metadata() and toBuffer()
\* return or throw
Settles(b) ==
  /\ WF_vars(ProbeResolve(b) \/ ProbeReject(b))
  /\ WF_vars(EncodeResolve(b) \/ EncodeReject(b))

InitLive ==
  /\ rev \in Revisions
  /\ \E fs \in SeqsUpTo(LiveImages, MaxFiles) : files = [b \in Requests |-> IF b = 1 THEN fs ELSE <<>>]
  /\ header = [b \in Requests |-> NoHeader]
  /\ h = [b \in Requests |-> IF b = 1 THEN FreshHandler ELSE Absent]
  /\ InitRest

SpecBatchLive == InitLive /\ [][NextBatch]_vars /\ \A b \in Requests : Settles(b)

\* one request, in either revision, whose client may go away and whose
\* archive stream may fail
NextFaults ==
  \/ NextBatch
  \/ \E b \in Requests : Disconnect(b)
  \/ \E b \in Requests : SinkBreaks(b)

SpecFaults == InitBatch /\ [][NextFaults]_vars

\* server.js with two requests and the progress connections
Init ==
  /\ rev = "server"
  /\ files \in [Requests -> SeqsUpTo(ConcImages, MaxConcFiles)]
  /\ header \in [Requests -> Headers]
  /\ h = [b \in Requests |-> FreshHandler]
  /\ InitRest

Next ==
  \/ NextBatch
  \/ \E c \in Conns, sid \in SessionIds : Connect(c, sid)
  \/ \E c \in Conns : Close(c)
  \/ \E b \in Requests : TimerFire(b)

Spec == Init /\ [][Next]_vars

\* server.js with a longer and a shorter request, to compare what becomes of
\* the same image in different batches, at different positions and under
\* different sessions.  A client may have connected under session "s1" before
\* the requests arrive; no connection is made or closed afterwards.
InitPair ==
  /\ rev = "server"
  /\ \E f1 \in SeqsUpTo(PairImages, MaxFiles), f2 \in SeqsUpTo(PairImages, MaxConcFiles) :
       files = [b \in Requests |-> IF b = 1 THEN f1 ELSE f2]
  /\ header \in [Requests -> Headers]
  /\ h = [b \in Requests |-> FreshHandler]
  /\ archive = [b \in Requests |-> NoArchive]
  /\ trace = [b \in Requests |-> <<>>]
  /\ timers = {}
  /\ \E connected \in BOOLEAN :
       /\ conn = [c \in Conns |-> IF connected /\ c = 1
                                  THEN [state |-> "open", sessionId |-> "s1", stale |-> {}]
                                  ELSE [state |-> "unused", sessionId |-> "unknown", stale |-> {}]]
       /\ written = [c \in Conns |-> IF connected /\ c = 1 THEN {Greeting} ELSE {}]
       /\ progressClients =
            IF connected THEN [exists |-> TRUE, map |-> [NoMap.map EXCEPT !["s1"] = 1]]
            ELSE NoMap

SpecPair == InitPair /\ [][NextBatch]_vars

\* ------------------------------------------------------------ history

Entries(b) == archive[b].entries

\* the positions of the history of b that hold an operation of the kind op
OpsAt(b, op) == {k \in DOMAIN trace[b] : trace[b][k].op = op}

\* the positions of the history of b that hold a progress event of a type
EventsAt(b, type) ==
  {k \in DOMAIN trace[b] : trace[b][k].op = "event" /\ trace[b][k].type = type}

\* the history record of the append of archive entry j of b
AppendOf(b, j) ==
  trace[b][CHOOSE k \in OpsAt(b, "append") :
             Cardinality({m \in OpsAt(b, "append") : m <= k}) = j]

\* ------------------------------------------------------------ claims

\* C1: in server.js every encoded buffer appended to an archive is within
\* MAX_FILE_SIZE (500000 bytes), or it is the result of the final encode at
\* quality 10 with chroma subsampling 4:2:0 forced.
C1_SizeCapOrForcedFloor ==
  rev = "server" =>
    \A b \in Requests : \A j \in DOMAIN Entries(b) :
      LET d == Entries(b)[j].data
      IN d.kind = "jpeg" =>
           \/ Length("server", d) <= 500000
           \/ /\ d.q = 10
              /\ d.sub
              /\ AppendOf(b, j).quality = 10
              /\ AppendOf(b, j).count = 19

\* the exception of C1 happens: an appended buffer over the limit
C1_Witness ==
  /\ rev = "server"
  /\ \E b \in Requests : \E j \in DOMAIN Entries(b) :
       /\ Entries(b)[j].data.kind = "jpeg"
       /\ Entries(b)[j].data.sub
       /\ Length("server", Entries(b)[j].data) > 500000

\* C2: the encoder is invoked at most (startQuality - qualityFloor) /
\* qualityStep + 2 times for an image: at most 19 times in server.js and at
\* most 16 times in part_000.  Every turn of the search loop is one of these
\* invocations, so the loop ends.
C2_EncodeCallsBounded ==
  \A b \in Requests :
    /\ h[b].encodeCalls <= (StartQuality(rev) - QUALITY_FLOOR) \div QUALITY_STEP + 2
    /\ rev = "server" => h[b].encodeCalls <= 19
    /\ rev = "simple" => h[b].encodeCalls <= 16
    /\ \A k \in OpsAt(b, "append") :
         trace[b][k].count <= IF rev = "server" THEN 19 ELSE 16

\* the longest search of server.js: the final encode is the 19th call
C2_Witness ==
  \E b \in Requests :
    rev = "server" /\ h[b].pc = "encode" /\ h[b].site = "final" /\ h[b].encodeCalls = 19

\* an image that server.js keeps as it is
KeptType(f) == f.w = 1260 /\ f.h = 1726 /\ f.size <= 500000

\* C3: in server.js an image probed as exactly 1260x1726 whose size is at
\* most 500000 bytes is appended as the input buffer itself, and the encoder
\* is not invoked for it.
C3_KeptOriginal ==
  rev = "server" =>
    \A b \in Requests :
      /\ h[b].pc = "encode" => ~KeptType(File(b))
      /\ \A k \in 1..Len(files[b]) :
           (KeptType(files[b][k]) /\ k < h[b].i) =>
             \E j \in DOMAIN Entries(b) :
               /\ Entries(b)[j].name = k
               /\ Entries(b)[j].data = Original(files[b][k])
               /\ AppendOf(b, j).item = k
               /\ AppendOf(b, j).count = 0

\* an original buffer is in an archive
C3_Witness ==
  /\ rev = "server"
  /\ \E b \in Requests : \E j \in DOMAIN Entries(b) :
       /\ KeptType(files[b][Entries(b)[j].name])
       /\ Entries(b)[j].data.kind = "original"

\* C4: for an image narrower or lower than the target, the canvas asked of
\* the resize step is no larger than the source in either axis.
C4_NoUpscale ==
  \A b \in Requests : \A j \in DOMAIN Entries(b) :
    LET d == Entries(b)[j].data
    IN (d.kind = "jpeg" /\ (d.src.w < TARGET_WIDTH \/ d.src.h < TARGET_HEIGHT)) =>
         (d.w <= d.src.w /\ d.h <= d.src.h)

\* the positions of the history of b about item n
ItemOpsAt(b, n) == {k \in DOMAIN trace[b] : trace[b][k].item = n}

ItemEventsAt(b, type, n) == EventsAt(b, type) \cap ItemOpsAt(b, n)

\* the items of b whose processing ended in the catch of the item
FailedItems(b) == {trace[b][k].item : k \in OpsAt(b, "caught")}

\* C5: in server.js, when a batch has emitted `complete`, the archive
\* entries are exactly the items that did not fail, in input order, their
\* number is the processedCount of `complete`, and processedCount plus the
\* number of file_error events is totalFiles.
C5_ArchiveMatchesCounts ==
  rev = "server" =>
    \A b \in Requests : \A k \in EventsAt(b, "complete") :
      /\ {Entries(b)[j].name : j \in DOMAIN Entries(b)}
           = (1..totalFiles(b)) \ FailedItems(b)
      /\ \A j1, j2 \in DOMAIN Entries(b) :
           j1 < j2 => Entries(b)[j1].name < Entries(b)[j2].name
      /\ Len(Entries(b)) = trace[b][k].count
      /\ trace[b][k].count + Cardinality(EventsAt(b, "file_error")) = totalFiles(b)

\* a batch completes with a failed item and an archived one
C5_Witness ==
  /\ rev = "server"
  /\ \E b \in Requests :
       /\ EventsAt(b, "complete") # {}
       /\ FailedItems(b) # {}
       /\ Entries(b) # <<>>

\* C6: a failed probe or encode of item n is caught at the item: no archive
\* entry for n, the batch goes on to every later item and to finalization;
\* in server.js exactly one file_error for n carries the message, and
\* processedCount stays the number of items archived.
C6_FailureCaughtPerItem ==
  \A b \in Requests :
    /\ rev = "server" /\ h[b].pc \in {"probe", "encode", "finalize", "done"}
         => h[b].processedCount = Len(Entries(b))
    /\ \A k \in OpsAt(b, "caught") :
         LET n == trace[b][k].item
         IN /\ \A j \in DOMAIN Entries(b) : Entries(b)[j].name # n
            /\ h[b].i > n
            /\ h[b].error \in {"none", "archive"}
            /\ h[b].pc = "done" => OpsAt(b, "finalize") # {}
            /\ h[b].pc \in {"finalize", "done"} =>
                 \A m \in (n + 1)..totalFiles(b) :
                   ItemOpsAt(b, m) \cap (OpsAt(b, "append") \cup OpsAt(b, "caught")) # {}
            /\ rev = "server" =>
                 /\ Cardinality(ItemEventsAt(b, "file_error", n)) = 1
                 /\ \A e \in ItemEventsAt(b, "file_error", n) :
                      /\ trace[b][e].error = trace[b][k].error
                      /\ trace[b][e].count
                           = Cardinality({a \in OpsAt(b, "append") : a < e})

\* item 1 failed and item 2 was archived
C6_Witness ==
  \E b \in Requests :
    /\ \E k \in OpsAt(b, "caught") : trace[b][k].item = 1
    /\ \E j \in DOMAIN Entries(b) : Entries(b)[j].name = 2

\* C7: a request without files is answered 400 at once: no archive, no probe,
\* no encode, no progress event.
C7_EmptyBatchRejected ==
  \A b \in Requests :
    (Len(files[b]) = 0 /\ h[b].pc \notin {"pending", "absent"}) =>
      /\ h[b].pc = "done"
      /\ h[b].status = "400"
      /\ archive[b] = NoArchive
      /\ trace[b] = <<Op("respond", "400", 0, 0, 0, "")>>
      /\ h[b].encodeCalls = 0
      /\ \A c \in Conns : b \notin written[c]

\* an empty request has been answered
C7_Witness ==
  \E b \in Requests : Len(files[b]) = 0 /\ h[b].status = "400"

\* C8: in server.js each item n has one processing_file, then one of
\* file_completed and file_error; the append of a completed item comes before
\* its file_completed; and all this comes before processing_file, the probe
\* and any encode of item n + 1.
C8_ItemEventsInOrder ==
  rev = "server" =>
    \A b \in Requests : \A n \in 1..totalFiles(b) :
      LET started == ItemEventsAt(b, "processing_file", n)
          ended == ItemEventsAt(b, "file_completed", n) \cup ItemEventsAt(b, "file_error", n)
          appends == OpsAt(b, "append") \cap ItemOpsAt(b, n)
      IN /\ Cardinality(started) <= 1
         /\ Cardinality(ended) <= 1
         /\ Cardinality(appends) <= 1
         /\ \A k \in ItemOpsAt(b, n) : \E s \in started : s <= k
         /\ \A k \in ItemOpsAt(b, n) : \A e \in ended : k <= e
         /\ \A e \in ItemEventsAt(b, "file_completed", n) : \E a \in appends : a < e
         /\ ItemEventsAt(b, "file_error", n) # {} => appends = {}
         /\ appends # {} => ItemEventsAt(b, "file_completed", n) # {}
         /\ (h[b].i = n /\ h[b].pc \in {"probe", "encode"}) =>
              (Cardinality(started) = 1 /\ ended = {})
         /\ (h[b].i > n \/ ItemOpsAt(b, n + 1) # {}) =>
              /\ Cardinality(started) = 1
              /\ Cardinality(ended) = 1
              /\ \A k \in ItemOpsAt(b, n) : \A m \in ItemOpsAt(b, n + 1) : k < m

\* item 1 was completed and item 2 is being encoded
C8_Witness ==
  /\ rev = "server"
  /\ \E b \in Requests :
       /\ ItemEventsAt(b, "file_completed", 1) # {}
       /\ h[b].i = 2
       /\ h[b].pc = "encode"

\* C9: every event a batch emits is written only to a client registered
\* under the batch's own session identifier, and no step of a batch (of its
\* handler or of its cleanup timer) adds, replaces or removes the registry
\* entry of another session.
C9_SessionsIsolated ==
  /\ [](\A c \in Conns : \A b \in written[c] \ {Greeting} :
          conn[c].sessionId = sessionId(b))
  /\ [][\A b \in Requests :
          (h'[b] # h[b] \/ (b \in timers /\ b \notin timers')) =>
            \A s \in SessionIds \ {sessionId(b)} : ClientOf(s)' = ClientOf(s)]_vars

\* two batches of different sessions have each written to a client, and the
\* clients differ
C9_Witness ==
  /\ sessionId(1) # sessionId(2)
  /\ \E c1, c2 \in Conns : c1 # c2 /\ 1 \in written[c1] /\ 2 \in written[c2]

\* C10: what server.js appends for an image, and the quality it reports for
\* it, are the same wherever the image is processed: in whichever batch, at
\* whichever position, under whichever session, with or without a client.
C10_OutputDependsOnImageOnly ==
  \A b1, b2 \in Requests :
    \A j1 \in DOMAIN Entries(b1) : \A j2 \in DOMAIN Entries(b2) :
      files[b1][Entries(b1)[j1].name] = files[b2][Entries(b2)[j2].name] =>
        /\ Entries(b1)[j1].data = Entries(b2)[j2].data
        /\ AppendOf(b1, j1).quality = AppendOf(b2, j2).quality
        /\ AppendOf(b1, j1).count = AppendOf(b2, j2).count

\* the same image was archived first in one batch and second in the other,
\* under different sessions, one of them with a client and one without
C10_Witness ==
  /\ sessionId(1) # sessionId(2)
  /\ \E j1 \in DOMAIN Entries(1) : \E j2 \in DOMAIN Entries(2) :
       /\ files[1][Entries(1)[j1].name] = files[2][Entries(2)[j2].name]
       /\ Entries(1)[j1].name # Entries(2)[j2].name
  /\ \E c \in Conns : written[c] \cap Requests # {}
  /\ \E b \in Requests : \A c \in Conns : b \notin written[c]

\* C11: once the client of the response has gone away while item n was being
\* processed, no encode is issued for an item after n.
C11_NoEncodeAfterDisconnect ==
  \A b \in Requests :
    (h[b].closedAt > 0 /\ h[b].pc = "encode") => h[b].i <= h[b].closedAt

\* C12: in server.js a failed archive.append for item n is fatal: it is not
\* reported as a file_error, no item after n is processed, and the batch ends
\* with `error`, not `complete`.
C12_AppendFailureIsFatal ==
  rev = "server" =>
    \A b \in Requests : \A k \in OpsAt(b, "appendfail") :
      LET n == trace[b][k].item
      IN /\ ItemEventsAt(b, "file_error", n) = {}
         /\ ItemOpsAt(b, n + 1) = {}
         /\ EventsAt(b, "complete") = {}
         /\ h[b].pc = "done" => EventsAt(b, "error") # {}

\* C13: in server.js the step in which the handler of a batch finishes, with
\* `complete` or on the fatal path with `error`, leaves the teardown of the
\* batch scheduled, so that the registration of the session is removed after
\* the delay; and the teardown runs only after the final event was emitted.
C13_TeardownAfterFinish ==
  [][rev = "server" =>
       \A b \in Requests :
         /\ ( /\ h[b].pc # "done"
              /\ h'[b].pc = "done"
              /\ \E k \in DOMAIN trace'[b] :
                   /\ trace'[b][k].op = "event"
                   /\ trace'[b][k].type \in {"complete", "error"} )
            => b \in timers'
         /\ (b \in timers /\ b \notin timers')
            => EventsAt(b, "complete") \cup EventsAt(b, "error") # {}]_vars

\* the qualities the search of revision r can try: 95, 90, ..., 10 in
\* server.js and 80, 75, ..., 10 in part_000
Ladder(r) ==
  {q \in 10..(IF r = "server" THEN 95 ELSE 80) :
     ((IF r = "server" THEN 95 ELSE 80) - q) % 5 = 0}

\* the byte limit of revision r, as the claims state it
Limit(r) == IF r = "server" THEN 500000 ELSE 5000

\* the qualities of the ladder at which the encode bytes would fit if it had
\* been made at that quality, without forced subsampling
FittingQualities(r, bytes) ==
  {q \in Ladder(r) : Length(r, [bytes EXCEPT !.q = q, !.sub = FALSE]) <= Limit(r)}

Highest(S) == CHOOSE q \in S : \A p \in S : p <= q

\* C14: the quality search stops at the first fitting result: while an image
\* is being encoded the quality is on the ladder between 10 and the start
\* quality and no higher quality of the ladder fits; an appended encode of an
\* image that fits at some quality of the ladder is the encode at the highest
\* such quality, and the calls made for it are those for that quality and the
\* ones above.
C14_FirstFitIsReturned ==
  \A b \in Requests :
    /\ h[b].pc \in {"probe", "encode"} =>
         h[b].quality \in Ladder(rev) /\ h[b].quality >= 10 /\
         h[b].quality <= (IF rev = "server" THEN 95 ELSE 80)
    /\ h[b].pc = "encode" =>
         \A q \in Ladder(rev) :
           q > h[b].quality =>
             q \notin FittingQualities(rev,
                        Encoded(File(b), h[b].fitMode, q, FALSE, rev = "server"))
    /\ \A j \in DOMAIN Entries(b) :
         LET d == Entries(b)[j].data
             fit == FittingQualities(rev, d)
         IN (d.kind = "jpeg" /\ fit # {}) =>
              /\ d.q = Highest(fit)
              /\ ~d.sub
              /\ Length(rev, d) <= Limit(rev)
              /\ AppendOf(b, j).quality = d.q
              /\ AppendOf(b, j).count =
                   ((IF rev = "server" THEN 95 ELSE 80) - d.q) \div 5 + 1

\* a search that went down the ladder and stopped in the middle of it, in
\* server.js after 10 calls at quality 50
C14_Witness ==
  \E b \in Requests : \E j \in DOMAIN Entries(b) :
    /\ rev = "server"
    /\ Entries(b)[j].data.kind = "jpeg"
    /\ Entries(b)[j].data.q = 50
    /\ ~Entries(b)[j].data.sub
    /\ AppendOf(b, j).count = 10

\* the fit stated for a source of sw by sh pixels: cover exactly when
\* |sw/sh - 1260/1726| < 0.10, which is 10 * |1726 sw - 1260 sh| < 1726 sh
StatedFit(sw, sh) ==
  IF 10 * (IF 1726 * sw >= 1260 * sh THEN 1726 * sw - 1260 * sh
           ELSE 1260 * sh - 1726 * sw) < 1726 * sh
  THEN "cover" ELSE "contain"

C16_SimpleExhaustedForcesSubsampling ==
  rev = "simple" =>
    \A b \in Requests : \A j \in DOMAIN Entries(b) :
      LET d == Entries(b)[j].data
      IN (d.kind = "jpeg" /\ d.q = 10 /\
          Length("simple", [d EXCEPT !.sub = FALSE]) > 5000) =>
           /\ d.sub
           /\ AppendOf(b, j).count = 16

\* every item of a handled batch of b ended in the catch of the item
AllFailed(b) ==
  /\ Len(files[b]) > 0
  /\ FailedItems(b) = 1..Len(files[b])

\* C17: when every probe and encode settles, a batch with files that is being
\* processed comes to archive.finalize(), whatever number of its items fail;
\* when all of them fail the archive finalized is empty, and in server.js the
\* batch then ends with `complete` and processedCount 0: item failures never
\* lead to the fatal `error`, which is sent only when finalize itself rejects.
C17_BatchReachesFinalize ==
  /\ \A b \in Requests :
       (Len(files[b]) > 0 /\ h[b].pc \in {"probe", "encode"})
         ~> (OpsAt(b, "finalize") # {} /\ h[b].pc = "finalize")
  /\ [](\A b \in Requests :
          /\ (AllFailed(b) /\ OpsAt(b, "finalize") # {}) => Entries(b) = <<>>
          /\ (rev = "server" /\ AllFailed(b) /\ archive[b].state = "finalized") =>
               /\ \E k \in EventsAt(b, "complete") : trace[b][k].count = 0
               /\ EventsAt(b, "error") = {}
          /\ EventsAt(b, "error") # {} => archive[b].state = "failed")

\* a server.js batch of MaxFiles files that all failed has finalized an empty
\* archive and sent `complete`
C17_Witness ==
  \E b \in Requests :
    /\ rev = "server"
    /\ Len(files[b]) = MaxFiles
    /\ AllFailed(b)
    /\ archive[b] = [state |-> "finalized", entries |-> <<>>]
    /\ EventsAt(b, "complete") # {}

\* the positions of the per-item progress events in the history of b
ItemEvents(b) ==
  EventsAt(b, "processing_file") \cup EventsAt(b, "file_completed")
    \cup EventsAt(b, "file_error")

\* the positions of the terminal events in the history of b
TerminalEvents(b) == EventsAt(b, "complete") \cup EventsAt(b, "error")

\* every position of K is before every position of L
Before(K, L) == \A k \in K : \A l \in L : k < l

\* C18: in server.js the events of a batch with files come in the order
\* upload_complete, processing_started, the per-item events, creating_zip,
\* then one terminal event, `complete` or `error` and never both; `complete`
\* comes only after archive.finalize() has resolved, and no per-item event
\* comes after creating_zip.
C18_BatchEventsInOrder ==
  rev = "server" =>
    \A b \in Requests :
      LET U == EventsAt(b, "upload_complete")
          P == EventsAt(b, "processing_started")
          I == ItemEvents(b)
          Z == EventsAt(b, "creating_zip")
          T == TerminalEvents(b)
      IN /\ OpsAt(b, "event") = U \cup P \cup I \cup Z \cup T
         /\ Cardinality(U) <= 1 /\ Cardinality(P) <= 1
         /\ Cardinality(Z) <= 1 /\ Cardinality(T) <= 1
         /\ Before(U, P) /\ Before(P, I) /\ Before(I, Z) /\ Before(Z, T)
         /\ P # {} => U # {}
         /\ I # {} => P # {}
         /\ Z # {} => (P # {} /\ Cardinality(I) >= Len(files[b]))
         /\ T # {} => Z # {}
         /\ (Len(files[b]) > 0 /\ h[b].pc \notin {"pending", "absent"}) => U # {}
         /\ (Len(files[b]) > 0 /\ h[b].pc = "done") => Cardinality(T) = 1
         /\ EventsAt(b, "complete") # {} =>
              /\ archive[b].state = "finalized"
              /\ Before(OpsAt(b, "finalize"), EventsAt(b, "complete"))
              /\ OpsAt(b, "finalize") # {}
         /\ T # {} => h[b].pc = "done"

\* a finished server.js batch whose history holds a file_error, a
\* file_completed, creating_zip and `complete`
C18_Witness ==
  \E b \in Requests :
    /\ rev = "server"
    /\ h[b].pc = "done"
    /\ EventsAt(b, "file_error") # {}
    /\ EventsAt(b, "file_completed") # {}
    /\ EventsAt(b, "creating_zip") # {}
    /\ EventsAt(b, "complete") # {}

\* C19: in server.js the registration made by a connection for a session is
\* not removed by the close handler of another, older, connection of the
\* session, nor by the teardown of a batch that had completed before the
\* connection registered.
C19_NewerRegistrationKept ==
  [][\A c \in Conns :
       ( /\ conn[c].state = "open"
         /\ ClientOf(conn[c].sessionId) = c
         /\ ClientOf(conn[c].sessionId)' = NoClient )
       => /\ ~ \E d \in Conns \ {c} :
                 conn[d].state = "open" /\ conn'[d].state = "closed"
          /\ ~ \E b \in conn[c].stale : b \in timers /\ b \notin timers']_vars

====
